---- MODULE Spec2Model ----
(***************************************************************************)
(* Job matching and recommendation engine of jobrready:                    *)
(*   microservices/semantic_matcher/main.py  (match_jobs and its scorers)  *)
(*   microservices/job_recommender/main.py   (generate_recommendations)    *)
(* Strings are sequences of one-character strings, so that lower-casing,   *)
(* punctuation stripping and substring tests are computed as Python does.  *)
(* Scores are exact rationals [n, d] kept in lowest terms.                 *)
(***************************************************************************)
EXTENDS Integers, Sequences, FiniteSets, TLC

VARIABLES
    svc,            \* which entry point this run exercises
    pc,             \* "received" | "responded" | "failed"
    now,            \* the value datetime.now() returns during the run
    skill_in,       \* arguments of calculate_skill_similarity
    skill_out,      \* its returned tuple
    adj_in,         \* arguments of adjust_for_activity_history
    adj_out,        \* its returned score
    match_request,  \* MatchRequest
    match_response, \* the reply of the matcher endpoint
    rec_request,    \* RecommendationRequest
    rec_response    \* the reply of the recommender endpoint

vars == <<svc, pc, now, skill_in, skill_out, adj_in, adj_out,
          match_request, match_response, rec_request, rec_response>>

-----------------------------------------------------------------------------
(* Bounds of the model *)

MaxSkills == 2
MaxReqs == 3
MaxHist == 2
MaxJobs == 12
MaxRecHist == 1
MaxRawJobs == 3

-----------------------------------------------------------------------------
(* Evaluation helper *)

\* The only element of a one-element set. {F(x) : x \in {e}} evaluates e once
\* and names its value x, where F(e) would evaluate e at every use of the
\* parameter.
ValueOf(S) == CHOOSE x \in S : TRUE

-----------------------------------------------------------------------------
(* Characters and strings *)

LowerLetters ==
    {"a","b","c","d","e","f","g","h","i","j","k","l","m",
     "n","o","p","q","r","s","t","u","v","w","x","y","z"}

Digits == {"0","1","2","3","4","5","6","7","8","9"}

UpperLetters ==
    {"A","B","C","D","E","F","G","H","I","J","K","L","M",
     "N","O","P","Q","R","S","T","U","V","W","X","Y","Z"}

\* str.lower(), one character
LowerChar(c) ==
    CASE c = "A" -> "a" []
       c = "B" -> "b" []
       c = "C" -> "c" []
       c = "D" -> "d" []
       c = "E" -> "e" []
       c = "F" -> "f" []
       c = "G" -> "g" []
       c = "H" -> "h" []
       c = "I" -> "i" []
       c = "J" -> "j" []
       c = "K" -> "k" []
       c = "L" -> "l" []
       c = "M" -> "m" []
       c = "N" -> "n" []
       c = "O" -> "o" []
       c = "P" -> "p" []
       c = "Q" -> "q" []
       c = "R" -> "r" []
       c = "S" -> "s" []
       c = "T" -> "t" []
       c = "U" -> "u" []
       c = "V" -> "v" []
       c = "W" -> "w" []
       c = "X" -> "x" []
       c = "Y" -> "y" []
       c = "Z" -> "z" []
       OTHER -> c

\* str.lower()
Lower(s) == ValueOf({[i \in 1..Len(t) |-> LowerChar(t[i])] : t \in {s}})

\* the characters the pattern [^\w\s] does not remove
IsWordOrSpace(c) ==
    \/ c \in LowerLetters
    \/ c \in UpperLetters
    \/ c \in Digits
    \/ c \in {"_", " "}

\* re.sub(r'[^\w\s]', '', text.lower())
normalize_text(text) == SelectSeq(Lower(text), IsWordOrSpace)

\* Python's `a in b` on two strings; the empty string is in every string
Contains(b, a) ==
    \A y \in {b}, x \in {a} :
        \E i \in 0..(Len(y) - Len(x)) : SubSeq(y, i + 1, i + Len(x)) = x

\* Python's `x in xs` on a list
InList(x, xs) == \A v \in {x}, ys \in {xs} : \E i \in 1..Len(ys) : ys[i] = v

-----------------------------------------------------------------------------
(* Exact rational arithmetic for the float scores *)

RECURSIVE GCD(_, _)
GCD(a, b) ==
    IF b = 0 THEN a ELSE ValueOf({GCD(y, r) : y \in {b}, r \in {a % b}})

Abs(x) == IF x < 0 THEN -x ELSE x

Rat(n, d) ==
    ValueOf({LET g == GCD(Abs(x), y)
             IN  [n |-> x \div g, d |-> y \div g] : x \in {n}, y \in {d}})

RAdd(a, b) ==
    ValueOf({Rat(x.n * y.d + y.n * x.d, x.d * y.d) : x \in {a}, y \in {b}})

RSub(a, b) ==
    ValueOf({Rat(x.n * y.d - y.n * x.d, x.d * y.d) : x \in {a}, y \in {b}})

RMul(a, b) ==
    ValueOf({Rat(x.n * y.n, x.d * y.d) : x \in {a}, y \in {b}})

RLe(a, b) == \A x \in {a}, y \in {b} : x.n * y.d <= y.n * x.d

RLt(a, b) == \A x \in {a}, y \in {b} : x.n * y.d < y.n * x.d

RMin(a, b) ==
    ValueOf({IF RLt(y, x) THEN y ELSE x : x \in {a}, y \in {b}})

RMax(a, b) ==
    ValueOf({IF RLt(x, y) THEN y ELSE x : x \in {a}, y \in {b}})

Zero == Rat(0, 1)
One == Rat(1, 1)

-----------------------------------------------------------------------------
(* Semantic matcher: skill similarity *)

\* each group is the value list of one entry of the dictionary, in order
skill_variations ==
    <<
      \* python
      << <<"p","y","t","h","o","n">>,
         <<"p","y","t","h","o","n"," ","p","r","o","g","r","a","m","m","i","n","g">>,
         <<"p","y","t","h","o","n"," ","d","e","v","e","l","o","p","m","e","n","t">> >>,
      \* javascript
      << <<"j","a","v","a","s","c","r","i","p","t">>,
         <<"j","s">>,
         <<"j","a","v","a","s","c","r","i","p","t"," ","d","e","v","e","l","o","p","m","e","n","t">> >>,
      \* react
      << <<"r","e","a","c","t">>,
         <<"r","e","a","c","t",".","j","s">>,
         <<"r","e","a","c","t","j","s">> >>,
      \* node.js
      << <<"n","o","d","e",".","j","s">>,
         <<"n","o","d","e","j","s">>,
         <<"n","o","d","e">> >>,
      \* sql
      << <<"s","q","l">>,
         <<"s","t","r","u","c","t","u","r","e","d"," ","q","u","e","r","y"," ","l","a","n","g","u","a","g","e">> >>,
      \* docker
      << <<"d","o","c","k","e","r">>,
         <<"d","o","c","k","e","r"," ","c","o","n","t","a","i","n","e","r","s">>,
         <<"c","o","n","t","a","i","n","e","r","i","z","a","t","i","o","n">> >>,
      \* aws
      << <<"a","w","s">>,
         <<"a","m","a","z","o","n"," ","w","e","b"," ","s","e","r","v","i","c","e","s">>,
         <<"a","m","a","z","o","n"," ","c","l","o","u","d">> >>,
      \* machine learning
      << <<"m","a","c","h","i","n","e"," ","l","e","a","r","n","i","n","g">>,
         <<"m","l">>,
         <<"a","i">>,
         <<"a","r","t","i","f","i","c","i","a","l"," ","i","n","t","e","l","l","i","g","e","n","c","e">> >>,
      \* data analysis
      << <<"d","a","t","a"," ","a","n","a","l","y","s","i","s">>,
         <<"d","a","t","a"," ","a","n","a","l","y","t","i","c","s">>,
         <<"d","a","t","a"," ","s","c","i","e","n","c","e">> >>,
      \* project management
      << <<"p","r","o","j","e","c","t"," ","m","a","n","a","g","e","m","e","n","t">>,
         <<"p","m">>,
         <<"a","g","i","l","e">>,
         <<"s","c","r","u","m">> >>
    >>

\* mutant: the variation groups are not consulted
VariationAppends_None(req, skill) == <<>>

\* the loop over skill_variations.items() for one (req, skill) pair: what it
\* appends to matching_skills (it breaks at the first group holding both)
VariationAppends(req, skill) ==
    IF \E g \in 1..Len(skill_variations) :
          InList(req, skill_variations[g]) /\ InList(skill, skill_variations[g])
    THEN <<req>>
    ELSE <<>>

\* the loop `for skill in candidate_skills_normalized` from index i on: what
\* it appends to matching_skills for requirement req
RECURSIVE PartialAppends(_, _, _)
PartialAppends(req, skills, i) ==
    IF i > Len(skills) THEN <<>>
    ELSE IF Contains(skills[i], req) \/ Contains(req, skills[i]) THEN <<req>>
    ELSE LET v == VariationAppends(req, skills[i])
         IN  IF v # <<>> THEN v ELSE PartialAppends(req, skills, i + 1)

\* mutant: only the first skill of the candidate is compared with the requirement
ReqAppends_FirstSkillOnly(req, skills) ==
    IF skills = <<>> THEN <<>>
    ELSE IF req = skills[1] THEN <<req>>
    ELSE PartialAppends(req, <<skills[1]>>, 1)

\* mutant: the partial-match loop runs after an exact match too (`else` lost)
ReqAppends_NoElse(req, skills) ==
    (IF InList(req, skills) THEN <<req>> ELSE <<>>)
    \o PartialAppends(req, skills, 1)

\* body of `for req in job_requirements_normalized`: appended matches
ReqAppends(req, skills) ==
    IF InList(req, skills) THEN <<req>> ELSE PartialAppends(req, skills, 1)

\* `matched` at the end of the loop body
ReqMatched(req, skills) == ReqAppends(req, skills) # <<>>

RECURSIVE MatchingFrom(_, _, _)
MatchingFrom(reqs, skills, i) ==
    IF i > Len(reqs) THEN <<>>
    ELSE ReqAppends(reqs[i], skills) \o MatchingFrom(reqs, skills, i + 1)

RECURSIVE MissingFrom(_, _, _)
MissingFrom(reqs, skills, i) ==
    IF i > Len(reqs) THEN <<>>
    ELSE (IF ReqMatched(reqs[i], skills) THEN <<>> ELSE <<reqs[i]>>)
         \o MissingFrom(reqs, skills, i + 1)

NormalizeAll(xs) == [i \in 1..Len(xs) |-> normalize_text(xs[i])]

\* mutant: no requirements count as nothing matched (score 0.0)
SkillResult_EmptyIsZero(job_requirements_normalized, matching_skills, missing_skills) ==
    [similarity_score |->
        IF Len(job_requirements_normalized) = 0 THEN Zero
        ELSE Rat(Len(matching_skills), Len(job_requirements_normalized)),
     matching_skills |-> matching_skills,
     missing_skills |-> missing_skills]

\* the returned tuple, for the two lists built by the loop
SkillResult(job_requirements_normalized, matching_skills, missing_skills) ==
    [similarity_score |->
        IF Len(job_requirements_normalized) = 0 THEN One
        ELSE Rat(Len(matching_skills), Len(job_requirements_normalized)),
     matching_skills |-> matching_skills,
     missing_skills |-> missing_skills]

\* the function after the two normalizations
SkillSimilarityOfNormalized(candidate_skills_normalized, job_requirements_normalized) ==
    SkillResult(job_requirements_normalized,
        MatchingFrom(job_requirements_normalized, candidate_skills_normalized, 1),
        MissingFrom(job_requirements_normalized, candidate_skills_normalized, 1))

calculate_skill_similarity(candidate_skills, job_requirements) ==
    SkillSimilarityOfNormalized(NormalizeAll(candidate_skills),
                                NormalizeAll(job_requirements))

-----------------------------------------------------------------------------
(* Semantic matcher: keywords, experience, location and job type *)

stop_words ==
    {
     <<"t","h","e">>,
     <<"a","n","d">>,
     <<"o","r">>,
     <<"b","u","t">>,
     <<"i","n">>,
     <<"o","n">>,
     <<"a","t">>,
     <<"t","o">>,
     <<"f","o","r">>,
     <<"o","f">>,
     <<"w","i","t","h">>,
     <<"b","y">>,
     <<"i","s">>,
     <<"a","r","e">>,
     <<"w","a","s">>,
     <<"w","e","r","e">>
    }

\* str.split(): the maximal runs of non-blank characters, left to right;
\* cur is the run being read
RECURSIVE SplitFrom(_, _, _)
SplitFrom(text, i, cur) ==
    IF i > Len(text) THEN (IF cur = <<>> THEN <<>> ELSE <<cur>>)
    ELSE IF text[i] = " "
         THEN (IF cur = <<>> THEN <<>> ELSE <<cur>>) \o SplitFrom(text, i + 1, <<>>)
    ELSE SplitFrom(text, i + 1, Append(cur, text[i]))

Split(text) == SplitFrom(text, 1, <<>>)

extract_keywords(text) ==
    SelectSeq(Split(normalize_text(text)),
              LAMBDA word : word \notin stop_words /\ Len(word) > 2)

\* candidate_keywords after the loop of extend calls
RECURSIVE KeywordsOfAll(_, _)
KeywordsOfAll(texts, i) ==
    IF i > Len(texts) THEN <<>>
    ELSE extract_keywords(texts[i]) \o KeywordsOfAll(texts, i + 1)

\* Counter(words)[w]
Occurrences(w, words) == Cardinality({i \in 1..Len(words) : words[i] = w})

Min2(a, b) == IF a < b THEN a ELSE b
Max2(a, b) == IF a < b THEN b ELSE a

RECURSIVE SumOver(_, _)
SumOver(S, f) ==
    IF S = {} THEN 0
    ELSE LET x == CHOOSE y \in S : TRUE
         IN  f[x] + SumOver(S \ {x}, f)

\* sum((candidate_counter & job_counter).values())
CounterIntersection(candidate_keywords, job_keywords, words) ==
    SumOver(words, [w \in words |->
        Min2(Occurrences(w, candidate_keywords), Occurrences(w, job_keywords))])

\* mutant: the keywords are counted once each, whatever their frequency
CounterUnion_Unweighted(candidate_keywords, job_keywords, words) ==
    Cardinality(words)

\* sum((candidate_counter | job_counter).values())
CounterUnion(candidate_keywords, job_keywords, words) ==
    SumOver(words, [w \in words |->
        Max2(Occurrences(w, candidate_keywords), Occurrences(w, job_keywords))])

\* intersection / union, 0.0 when the union is empty
JaccardRatio(intersection, union) ==
    IF union = 0 THEN Zero ELSE Rat(intersection, union)

\* the function after the keyword extraction
ExperienceSimilarityOfKeywords(candidate_keywords, job_keywords, words) ==
    JaccardRatio(CounterIntersection(candidate_keywords, job_keywords, words),
                 CounterUnion(candidate_keywords, job_keywords, words))

WordsOf(candidate_keywords, job_keywords) ==
    {candidate_keywords[i] : i \in 1..Len(candidate_keywords)}
        \cup {job_keywords[i] : i \in 1..Len(job_keywords)}

calculate_experience_similarity(candidate_experience, job_description) ==
    ValueOf({ExperienceSimilarityOfKeywords(candidate_keywords, job_keywords,
                 WordsOf(candidate_keywords, job_keywords)) :
             candidate_keywords \in {KeywordsOfAll(candidate_experience, 1)},
             job_keywords \in {extract_keywords(job_description)}})

calculate_location_match(candidate_locations, job_location) ==
    IF Len(candidate_locations) = 0 THEN One
    ELSE IF \E i \in 1..Len(candidate_locations) :
               \/ Contains(normalize_text(job_location),
                           normalize_text(candidate_locations[i]))
               \/ Contains(normalize_text(candidate_locations[i]),
                           normalize_text(job_location))
         THEN One
    ELSE Zero

calculate_job_type_match(candidate_job_types, job_type) ==
    IF Len(candidate_job_types) = 0 THEN One
    ELSE IF \E i \in 1..Len(candidate_job_types) :
               \/ Contains(normalize_text(job_type),
                           normalize_text(candidate_job_types[i]))
               \/ Contains(normalize_text(candidate_job_types[i]),
                           normalize_text(job_type))
         THEN One
    ELSE Zero

-----------------------------------------------------------------------------
(* list.sort(key=..., reverse=True) *)

\* mutant: sort ascending, then reverse the list (equal keys end up reversed)
InsertStable_TiesReversed(order, i, keys) ==
    LET k == Cardinality({p \in 1..Len(order) : RLt(keys[i], keys[order[p]])})
    IN  SubSeq(order, 1, k) \o <<i>> \o SubSeq(order, k + 1, Len(order))

\* mutant: reverse=True forgotten (ascending order)
InsertStable_Ascending(order, i, keys) ==
    LET k == Cardinality({p \in 1..Len(order) : RLe(keys[order[p]], keys[i])})
    IN  SubSeq(order, 1, k) \o <<i>> \o SubSeq(order, k + 1, Len(order))

\* the place of element i among the elements before it: after every element
\* whose key is not smaller (the sort is stable, also with reverse=True)
InsertStable(order, i, keys) ==
    LET k == Cardinality({p \in 1..Len(order) : RLe(keys[i], keys[order[p]])})
    IN  SubSeq(order, 1, k) \o <<i>> \o SubSeq(order, k + 1, Len(order))

RECURSIVE SortedOrderFrom(_, _, _)
SortedOrderFrom(keys, i, order) ==
    IF i > Len(keys) THEN order
    ELSE SortedOrderFrom(keys, i + 1, InsertStable(order, i, keys))

\* the input positions in output order
SortedOrder(keys) == SortedOrderFrom(keys, 1, <<>>)

\* xs sorted by keys[i], the key of xs[i], descending
SortDescending(xs, keys) ==
    ValueOf({[p \in 1..Len(xs) |-> xs[order[p]]] : order \in {SortedOrder(keys)}})

-----------------------------------------------------------------------------
(* Semantic matcher: match_jobs and its endpoints *)

\* int(x * 100)
Percent(x) == (x.n * 100) \div x.d

\* explanation_parts; ", ".join is left out, the parts are kept as a list
ExplanationParts(skill_similarity, experience_similarity, location_similarity, job_type_similarity) ==
    (IF RLt(Rat(5, 10), skill_similarity)
     THEN <<<<"Strong skill match", Percent(skill_similarity)>>>>
     ELSE IF RLt(Rat(2, 10), skill_similarity)
     THEN <<<<"Moderate skill match", Percent(skill_similarity)>>>>
     ELSE <<<<"Low skill match", Percent(skill_similarity)>>>>)
    \o (IF RLt(Rat(3, 10), experience_similarity)
        THEN <<<<"Relevant experience", 0>>>> ELSE <<>>)
    \o (IF RLt(Rat(5, 10), location_similarity)
        THEN <<<<"Preferred location", 0>>>> ELSE <<>>)
    \o (IF RLt(Rat(5, 10), job_type_similarity)
        THEN <<<<"Preferred job type", 0>>>> ELSE <<>>)

\* mutant: the job type weight is 0.10, the weights total 0.95
OverallSimilarity_WeightsShort(skill_similarity, experience_similarity, location_similarity, job_type_similarity) ==
    RAdd(RAdd(RAdd(RMul(skill_similarity, Rat(4, 10)),
                   RMul(experience_similarity, Rat(3, 10))),
              RMul(location_similarity, Rat(15, 100))),
         RMul(job_type_similarity, Rat(10, 100)))

\* skill * 0.4 + experience * 0.3 + location * 0.15 + job type * 0.15
OverallSimilarity(skill_similarity, experience_similarity, location_similarity, job_type_similarity) ==
    RAdd(RAdd(RAdd(RMul(skill_similarity, Rat(4, 10)),
                   RMul(experience_similarity, Rat(3, 10))),
              RMul(location_similarity, Rat(15, 100))),
         RMul(job_type_similarity, Rat(15, 100)))

\* the JobMatch built from the four similarities
JobMatch(job, skill, experience_similarity, location_similarity, job_type_similarity) ==
    [job_id |-> job.id,
     similarity_score |->
        OverallSimilarity(skill.similarity_score, experience_similarity,
                          location_similarity, job_type_similarity),
     matching_skills |-> skill.matching_skills,
     missing_skills |-> skill.missing_skills,
     explanation |->
        ExplanationParts(skill.similarity_score, experience_similarity,
                         location_similarity, job_type_similarity)]

\* body of `for job in jobs`: the JobMatch appended
MatchOne(candidate, job) ==
    JobMatch(job,
        calculate_skill_similarity(candidate.skills, job.requirements),
        calculate_experience_similarity(candidate.experience, job.description),
        calculate_location_match(candidate.preferred_locations, job.location),
        calculate_job_type_match(candidate.job_types, job.type))

\* matches.sort(key=lambda x: x.similarity_score, reverse=True)
SortBySimilarity(matches) ==
    SortDescending(matches, [i \in 1..Len(matches) |-> matches[i].similarity_score])

match_jobs(candidate, jobs) ==
    SortBySimilarity([i \in 1..Len(jobs) |-> MatchOne(candidate, jobs[i])])

\* xs[:n]
\* mutant: the slice is lost, the whole list is kept
Take_NoCap(xs, n) == xs

Take(xs, n) == SubSeq(xs, 1, Min2(n, Len(xs)))

\* matches[:10]
RecommendedJobsCap == 10

-----------------------------------------------------------------------------
(* Job recommender: activity history adjustment *)

\* timedelta(days=30)
WindowDays == 30

\* A timestamp string is modelled by what datetime.fromisoformat makes of it:
\* [iso |-> TRUE, day |-> d] parses to the naive instant d (in days), and
\* [iso |-> FALSE, ...] is a string fromisoformat rejects (ValueError).
ParseFails(activity) == ~activity.timestamp.iso

\* the filter of the list comprehension, for a timestamp that parses
IsRecent(activity, clock) == activity.timestamp.day > clock - WindowDays

\* recent_activities; evaluated only when every timestamp parses
recent_activities(activity_history, clock) ==
    SelectSeq(activity_history, LAMBDA a : IsRecent(a, clock))

\* mutant: the score is clamped after every event instead of once at the end
ApplyActivity_ClampEach(score, job_id, activity) ==
    IF activity.job_id # job_id THEN score
    ELSE IF activity.action = "applied"
         THEN RMax(Zero, RMin(RAdd(score, Rat(1, 10)), One))
    ELSE IF activity.action = "dismissed"
         THEN RMax(Zero, RMin(RSub(score, Rat(2, 10)), One))
    ELSE IF activity.action = "saved"
         THEN RMax(Zero, RMin(RAdd(score, Rat(5, 100)), One))
    ELSE score

\* body of `for activity in recent_activities`
ApplyActivity(score, job_id, activity) ==
    IF activity.job_id # job_id THEN score
    ELSE IF activity.action = "applied" THEN RAdd(score, Rat(1, 10))
    ELSE IF activity.action = "dismissed" THEN RSub(score, Rat(2, 10))
    ELSE IF activity.action = "saved" THEN RAdd(score, Rat(5, 100))
    ELSE score

RECURSIVE ApplyActivities(_, _, _, _)
ApplyActivities(score, job_id, activities, i) ==
    IF i > Len(activities) THEN score
    ELSE ApplyActivities(ApplyActivity(score, job_id, activities[i]),
                         job_id, activities, i + 1)

\* max(0.0, min(score, 1.0))
\* mutant: the final max(0.0, min(score, 1.0)) is lost
Clamp01_None(score) == score

Clamp01(score) == RMax(Zero, RMin(score, One))

\* returns [raised |-> TRUE] when a timestamp does not parse
adjust_for_activity_history(score, job_id, activity_history, clock) ==
    IF \E i \in 1..Len(activity_history) : ParseFails(activity_history[i])
    THEN [raised |-> TRUE, value |-> Zero]
    ELSE [raised |-> FALSE,
          value |-> Clamp01(ApplyActivities(score, job_id,
                               recent_activities(activity_history, clock), 1))]

-----------------------------------------------------------------------------
(* Job recommender: base score, categories, generate_recommendations *)

\* `if user_preferences.salary_range:`; None and {} are both falsy
Truthy(salary_range) == salary_range.given

\* skill_matches of calculate_base_match_score and of generate_recommendations:
\* the skills that occur (lower-cased) inside some requirement
SkillMatches(skills, requirements) ==
    Cardinality({i \in 1..Len(skills) :
                    \E j \in 1..Len(requirements) :
                        Contains(Lower(requirements[j]), Lower(skills[i]))})

\* Location match (20% weight): what the first `if` adds to the score
LocationCredit(user_preferences, job) ==
    IF InList(job.location, user_preferences.preferred_locations) \/ job.is_remote
    THEN Rat(2, 10) ELSE Zero

\* Skills match (10% weight): what the last `if` adds to the score
SkillsCredit(career_trajectory, job) ==
    IF Len(job.requirements) > 0
    THEN RMul(Rat(1, 10),
              Rat(SkillMatches(career_trajectory.skills, job.requirements),
                  Len(job.requirements)))
    ELSE Zero

\* salary_random is the value random.random() returns for this job
calculate_base_match_score(user_preferences, job, career_trajectory, salary_random) ==
    LET location == LocationCredit(user_preferences, job)
        job_type == IF InList(job.type, user_preferences.job_types)
                    THEN Rat(15, 100) ELSE Zero
        industry == IF InList(job.industry, user_preferences.preferred_industries)
                    THEN Rat(15, 100) ELSE Zero
        role == IF \E i \in 1..Len(user_preferences.preferred_roles) :
                      \/ Contains(Lower(job.title),
                                  Lower(user_preferences.preferred_roles[i]))
                      \/ Contains(Lower(job.description),
                                  Lower(user_preferences.preferred_roles[i]))
                THEN Rat(2, 10) ELSE Zero
        level == IF job.experience_level = user_preferences.experience_level
                 THEN Rat(1, 10) ELSE Zero
        salary == IF Truthy(user_preferences.salary_range)
                  THEN RMul(Rat(1, 10), salary_random) ELSE Zero
        skills == SkillsCredit(career_trajectory, job)
        score == RAdd(RAdd(RAdd(RAdd(RAdd(RAdd(location, job_type), industry),
                                     role), level), salary), skills)
    IN  RMin(score, One)

\* mutant: only the first keyword found in the title is compared with the role
IsGrowthOpportunity_FirstKeywordOnly(career_trajectory, job) ==
    IF Contains(Lower(job.title), <<"s","e","n","i","o","r">>)
    THEN ~Contains(Lower(career_trajectory.current_role), <<"s","e","n","i","o","r">>)
    ELSE IF Contains(Lower(job.title), <<"l","e","a","d">>)
    THEN ~Contains(Lower(career_trajectory.current_role), <<"l","e","a","d">>)
    ELSE /\ Contains(Lower(job.title), <<"m","a","n","a","g","e","r">>)
         /\ ~Contains(Lower(career_trajectory.current_role), <<"m","a","n","a","g","e","r">>)

\* the if / elif chain of the loop body: whether the job is appended
IsGrowthOpportunity(career_trajectory, job) ==
    \/ /\ Contains(Lower(job.title), <<"s","e","n","i","o","r">>)
       /\ ~Contains(Lower(career_trajectory.current_role), <<"s","e","n","i","o","r">>)
    \/ /\ Contains(Lower(job.title), <<"l","e","a","d">>)
       /\ ~Contains(Lower(career_trajectory.current_role), <<"l","e","a","d">>)
    \/ /\ Contains(Lower(job.title), <<"m","a","n","a","g","e","r">>)
       /\ ~Contains(Lower(career_trajectory.current_role), <<"m","a","n","a","g","e","r">>)

identify_career_growth_opportunities(career_trajectory, jobs) ==
    SelectSeq(jobs, LAMBDA job : IsGrowthOpportunity(career_trajectory, job))

Reasons(preferences, job) ==
    (IF InList(job.location, preferences.preferred_locations) \/ job.is_remote
     THEN <<"Matches your preferred location">> ELSE <<>>)
    \o (IF InList(job.type, preferences.job_types)
        THEN <<"Matches your preferred job type">> ELSE <<>>)
    \o (IF \E i \in 1..Len(preferences.preferred_roles) :
              Contains(Lower(job.title), Lower(preferences.preferred_roles[i]))
        THEN <<"Matches your preferred role">> ELSE <<>>)
    \o (IF InList(job.industry, preferences.preferred_industries)
        THEN <<"In your preferred industry">> ELSE <<>>)

\* mutant: the seniority test is made last and wins over the skill test
RecommendationType_GrowthWins(career_trajectory, job) ==
    IF identify_career_growth_opportunities(career_trajectory, <<job>>) # <<>>
    THEN "career_growth"
    ELSE IF 2 * SkillMatches(career_trajectory.skills, job.requirements)
               > Len(job.requirements)
    THEN "skill_match"
    ELSE "for_you"

\* mutant: a job that passes neither test is a new opportunity
RecommendationType_DefaultNew(career_trajectory, job) ==
    IF 2 * SkillMatches(career_trajectory.skills, job.requirements)
           > Len(job.requirements)
    THEN "skill_match"
    ELSE IF identify_career_growth_opportunities(career_trajectory, <<job>>) # <<>>
    THEN "career_growth"
    ELSE "new_opportunity"

RecommendationType(career_trajectory, job) ==
    LET growth_jobs == identify_career_growth_opportunities(career_trajectory, <<job>>)
        skill_matches == SkillMatches(career_trajectory.skills, job.requirements)
    IN  IF 2 * skill_matches > Len(job.requirements) THEN "skill_match"
        ELSE IF growth_jobs # <<>> THEN "career_growth"
        ELSE "for_you"

\* [:10] of the personalized feed and the bound of the fill loop
FeedCap == 10
\* [:5] of the specialized categories
CategoryCap == 5
\* recommendations[:20]
TopOverall == 20

\* the while loop that fills the feed; it pops from `recommendations`
RECURSIVE FillFeed(_, _)
FillFeed(personalized_feed, recommendations) ==
    IF Len(personalized_feed) < FeedCap /\ recommendations # <<>>
    THEN FillFeed(Append(personalized_feed, Head(recommendations)),
                  Tail(recommendations))
    ELSE [personalized_feed |-> personalized_feed,
          recommendations |-> recommendations]

\* mutant: the list is not filtered by recommendation_type
OfType_Any(recommendations, type) == recommendations

OfType(recommendations, type) ==
    SelectSeq(recommendations, LAMBDA rec : rec.recommendation_type = type)

\* the JobRecommendation built for a job and its adjusted score
JobRecommendation(request, job, adjusted_score, apply_random) ==
    [job_id |-> job.id,
     title |-> job.title,
     company |-> job.company,
     location |-> job.location,
     match_score |-> adjusted_score,
     reasons |-> Reasons(request.preferences, job),
     recommendation_type |-> RecommendationType(request.career_trajectory, job),
     apply_probability |->
        RMin(RAdd(adjusted_score, RMul(Rat(2, 10), apply_random)), One)]

\* body of `for job in request.job_pool`, when adjust_for_activity_history
\* returns: the JobRecommendation appended
RecommendOne(request, job, clock, salary_random, apply_random) ==
    JobRecommendation(request, job,
        adjust_for_activity_history(
            calculate_base_match_score(request.preferences, job,
                                       request.career_trajectory, salary_random),
            job.id, request.activity_history, clock).value,
        apply_random)

\* random.random(): the k-th value of the run's stream (a repeated tuple)
RandomAt(random_stream, k) == random_stream[((k - 1) % Len(random_stream)) + 1]

\* number of random.random() calls made while one job is scored
DrawsPerJob(request) == IF Truthy(request.preferences.salary_range) THEN 2 ELSE 1

\* returns [raised |-> TRUE] when a timestamp of the history does not parse
\* (the history is parsed once per job of the pool, so never for an empty pool)
\* the list `recommendations` when the loop over the pool ends
ScoredJobs(request, clock, random_stream) ==
    [i \in 1..Len(request.job_pool) |->
        RecommendOne(request, request.job_pool[i], clock,
            RandomAt(random_stream, DrawsPerJob(request) * (i - 1) + 1),
            RandomAt(random_stream, DrawsPerJob(request) * i))]

\* recommendations.sort(key=lambda x: x.match_score, reverse=True)
SortByMatchScore(scored) ==
    SortDescending(scored, [i \in 1..Len(scored) |-> scored[i].match_score])

\* the response; `filled` is the outcome of the fill loop, which has popped
\* its entries from `recommendations` before recommendations[:20] is taken
Response(recommendations, filled) ==
    [raised |-> FALSE,
     recommendations |-> Take(filled.recommendations, TopOverall),
     personalized_feed |-> filled.personalized_feed,
     career_growth_opportunities |->
        Take(OfType(recommendations, "career_growth"), CategoryCap),
     skill_based_matches |->
        Take(OfType(recommendations, "skill_match"), CategoryCap),
     new_opportunities |->
        Take(OfType(recommendations, "new_opportunity"), CategoryCap)]

\* the categorization of the sorted list
Categorize(recommendations) ==
    Response(recommendations,
             FillFeed(Take(OfType(recommendations, "for_you"), FeedCap),
                      recommendations))

\* returns [raised |-> TRUE] when a timestamp of the history does not parse
\* (the history is parsed once per job of the pool, so never for an empty pool)
generate_recommendations(request, clock, random_stream) ==
    IF /\ Len(request.job_pool) > 0
       /\ \E i \in 1..Len(request.activity_history) :
              ParseFails(request.activity_history[i])
    THEN [raised |-> TRUE]
    ELSE ValueOf({Categorize(recommendations) :
                  recommendations \in
                     {SortByMatchScore(ScoredJobs(request, clock, random_stream))}})

-----------------------------------------------------------------------------
(* Input strings *)

Python == <<"P","y","t","h","o","n">>
SQL == <<"S","Q","L">>
Django == <<"D","j","a","n","g","o">>
AWS == <<"A","W","S">>
ReactJs == <<"R","e","a","c","t",".","j","s">>
reactjs == <<"r","e","a","c","t","j","s">>
JS == <<"J","S">>
JavaScript == <<"J","a","v","a","S","c","r","i","p","t">>

Berlin == <<"B","e","r","l","i","n">>
berlin == <<"b","e","r","l","i","n">>
Paris == <<"P","a","r","i","s">>
FullTime == <<"F","u","l","l","-","t","i","m","e">>
FullTimeAlt == <<"f","u","l","l"," ","t","i","m","e">>
Contract == <<"C","o","n","t","r","a","c","t">>
Tech == <<"T","e","c","h">>
Finance == <<"F","i","n","a","n","c","e">>
Engineer == <<"E","n","g","i","n","e","e","r">>
SeniorEngineer == <<"S","e","n","i","o","r"," ","E","n","g","i","n","e","e","r">>
LeadDeveloper == <<"L","e","a","d"," ","D","e","v","e","l","o","p","e","r">>
Acme == <<"A","c","m","e">>
PythonAndSql == <<"P","y","t","h","o","n"," ","a","n","d"," ","S","Q","L">>
PythonServices == <<"P","y","t","h","o","n"," ","s","e","r","v","i","c","e","s">>
DataTeam == <<"D","a","t","a"," ","t","e","a","m">>
DataServices == <<"D","a","t","a"," ","s","e","r","v","i","c","e","s"," ","f","o","r"," ","t","h","e"," ","t","e","a","m">>
EmptyString == <<>>

StopWordsOnly == <<"o","f"," ","t","h","e">>
SeniorManager == <<"S","e","n","i","o","r"," ","M","a","n","a","g","e","r">>

\* sequences over S of length at most n
SeqsUpTo(S, n) == UNION {[1..k -> S] : k \in 0..n}

-----------------------------------------------------------------------------
(* SpecSkill: calculate_skill_similarity applied to bounded inputs *)

NoValue == <<>>

SkillInputSkills == {Python, SQL, JavaScript}
SkillInputReqs == {Python, Django, AWS, ReactJs, reactjs, JS}

InitSkill ==
    /\ svc = "skill"
    /\ pc = "received"
    /\ now = 0
    /\ skill_in \in [candidate_skills : SeqsUpTo(SkillInputSkills, MaxSkills),
                     job_requirements : SeqsUpTo(SkillInputReqs, MaxReqs)]
    /\ skill_out = NoValue
    /\ adj_in = NoValue /\ adj_out = NoValue
    /\ match_request = NoValue /\ match_response = NoValue
    /\ rec_request = NoValue /\ rec_response = NoValue

CallSkillSimilarity ==
    /\ svc = "skill"
    /\ pc = "received"
    /\ skill_out' = calculate_skill_similarity(skill_in.candidate_skills,
                                               skill_in.job_requirements)
    /\ pc' = "responded"
    /\ UNCHANGED <<svc, now, skill_in, adj_in, adj_out, match_request,
                   match_response, rec_request, rec_response>>

NextSkill == CallSkillSimilarity

SpecSkill == InitSkill /\ [][NextSkill]_vars

-----------------------------------------------------------------------------
(* SpecAdjust: adjust_for_activity_history applied to bounded inputs *)

Actions == {"viewed", "applied", "saved", "dismissed"}

Stamp(d) == [iso |-> TRUE, day |-> d]
Malformed == [iso |-> FALSE, day |-> 0]

\* older than the window, exactly 30 days old, inside, in the future, unparsable
AdjTimestamps ==
    {Stamp(0 - WindowDays - 1), Stamp(0 - WindowDays), Stamp(0 - 1), Stamp(1),
     Malformed}

AdjEvents == [job_id : {1, 2}, action : Actions, timestamp : AdjTimestamps]

AdjScores == {Rat(1, 10), Rat(1, 2), One}

InitAdjust ==
    /\ svc = "adjust"
    /\ pc = "received"
    /\ now = 0
    /\ adj_in \in [score : AdjScores, job_id : {1},
                   activity_history : SeqsUpTo(AdjEvents, MaxHist)]
    /\ adj_out = NoValue
    /\ skill_in = NoValue /\ skill_out = NoValue
    /\ match_request = NoValue /\ match_response = NoValue
    /\ rec_request = NoValue /\ rec_response = NoValue

CallAdjust ==
    /\ svc = "adjust"
    /\ pc = "received"
    /\ \E r \in {adjust_for_activity_history(adj_in.score, adj_in.job_id,
                                             adj_in.activity_history, now)} :
           /\ adj_out' = r
           /\ pc' = IF r.raised THEN "failed" ELSE "responded"
    /\ UNCHANGED <<svc, now, adj_in, skill_in, skill_out, match_request,
                   match_response, rec_request, rec_response>>

NextAdjust == CallAdjust

SpecAdjust == InitAdjust /\ [][NextAdjust]_vars

-----------------------------------------------------------------------------
(* Spec: one request served by the recommender or by the matcher *)

\* the streams random.random() may produce during a run, each a repeated tuple
RandomStreams ==
    {<<Zero>>, <<Rat(1, 2)>>, <<Zero, Rat(1, 2)>>, <<Rat(1, 2), Zero, Zero>>}

\* JobPosting values of the recommender, without their id
SkillJob ==
    [title |-> SeniorEngineer, company |-> Acme, location |-> Berlin,
     type |-> FullTime, description |-> PythonServices,
     requirements |-> <<PythonAndSql>>, is_remote |-> FALSE,
     industry |-> Tech, experience_level |-> "senior"]

PlainJob ==
    [title |-> Engineer, company |-> Acme, location |-> Paris,
     type |-> Contract, description |-> DataTeam,
     requirements |-> <<SQL, Django, AWS>>, is_remote |-> FALSE,
     industry |-> Finance, experience_level |-> "mid"]

LeadJob ==
    [title |-> LeadDeveloper, company |-> Acme, location |-> Paris,
     type |-> FullTime, description |-> EmptyString,
     requirements |-> <<>>, is_remote |-> TRUE,
     industry |-> Tech, experience_level |-> "senior"]

\* a pool of n jobs repeating the pattern; the job at position i has id i
\* (ids are opaque strings in the code; only their equality is used)
Pool(pattern, n) ==
    [i \in 1..n |-> [id |-> i] @@ pattern[((i - 1) % Len(pattern)) + 1]]

RecPatterns ==
    {<<SkillJob>>, <<PlainJob>>, <<PlainJob, SkillJob>>, <<SkillJob, PlainJob>>,
     <<LeadJob, PlainJob>>, <<PlainJob, LeadJob, SkillJob>>}

\* the pool sizes tried: the small ones, and one beyond the ten entries the
\* personalized feed takes
PoolSizes == (0..3) \cup {MaxJobs}

RecPools == {Pool(pattern, n) : pattern \in RecPatterns, n \in PoolSizes}

NoSalary == [given |-> FALSE, min |-> 0, max |-> 0]
SomeSalary == [given |-> TRUE, min |-> 50000, max |-> 100000]

EngineerPreferences(salary_range) ==
    [preferred_roles |-> <<Engineer>>, preferred_industries |-> <<Tech>>,
     preferred_locations |-> <<Berlin>>, job_types |-> <<FullTime>>,
     salary_range |-> salary_range, experience_level |-> "senior"]

NoPreferences ==
    [preferred_roles |-> <<>>, preferred_industries |-> <<>>,
     preferred_locations |-> <<>>, job_types |-> <<>>,
     salary_range |-> NoSalary, experience_level |-> "entry"]

RecUsers ==
    {[career_trajectory |-> [current_role |-> Engineer, years_experience |-> 3,
                             skills |-> <<Python, SQL>>],
      preferences |-> EngineerPreferences(NoSalary)],
     [career_trajectory |-> [current_role |-> Engineer, years_experience |-> 3,
                             skills |-> <<Python, SQL>>],
      preferences |-> EngineerPreferences(SomeSalary)],
     [career_trajectory |-> [current_role |-> Engineer, years_experience |-> 0,
                             skills |-> <<>>],
      preferences |-> NoPreferences]}

\* id of no job of any pool
GoneJobId == 0

RecEvents ==
    {[job_id |-> 1, action |-> "dismissed", timestamp |-> Stamp(0 - 1)],
     [job_id |-> 2, action |-> "applied", timestamp |-> Stamp(0 - 1)],
     [job_id |-> GoneJobId, action |-> "dismissed", timestamp |-> Stamp(0 - 1)],
     [job_id |-> GoneJobId, action |-> "viewed", timestamp |-> Malformed]}

\* JobPosting values of the matcher, without their id
MatchSkillJob ==
    [title |-> SeniorEngineer, company |-> Acme, description |-> PythonServices,
     requirements |-> <<Python, Django, AWS>>, location |-> Berlin,
     type |-> FullTime]

MatchPlainJob ==
    [title |-> Engineer, company |-> Acme, description |-> DataTeam,
     requirements |-> <<SQL>>, location |-> Paris, type |-> Contract]

MatchEmptyJob ==
    [title |-> EmptyString, company |-> EmptyString, description |-> EmptyString,
     requirements |-> <<>>, location |-> EmptyString, type |-> EmptyString]

MatchPatterns ==
    {<<MatchSkillJob>>, <<MatchPlainJob, MatchSkillJob>>,
     <<MatchSkillJob, MatchPlainJob>>, <<MatchEmptyJob, MatchPlainJob>>,
     <<MatchPlainJob, MatchEmptyJob, MatchSkillJob>>}

MatchPools == {Pool(pattern, n) : pattern \in MatchPatterns, n \in PoolSizes}

MatchCandidates ==
    {[skills |-> <<Python, SQL>>, experience |-> <<PythonServices>>,
      preferred_locations |-> <<berlin>>, job_types |-> <<FullTime>>],
     [skills |-> <<>>, experience |-> <<>>,
      preferred_locations |-> <<>>, job_types |-> <<>>],
     [skills |-> <<SQL>>, experience |-> <<DataServices, DataTeam>>,
      preferred_locations |-> <<Paris>>, job_types |-> <<FullTimeAlt>>]}

InitRecommender ==
    /\ svc = "recommender"
    /\ \E user \in RecUsers :
          rec_request \in
              [user_id : {"user123"},
               career_trajectory : {user.career_trajectory},
               preferences : {user.preferences},
               activity_history : SeqsUpTo(RecEvents, MaxRecHist),
               job_pool : RecPools]
    /\ match_request = NoValue

InitMatcher ==
    /\ svc = "matcher"
    /\ match_request \in [candidate : MatchCandidates, jobs : MatchPools]
    /\ rec_request = NoValue

Init ==
    /\ InitRecommender \/ InitMatcher
    /\ pc = "received"
    /\ now = 0
    /\ rec_response = NoValue /\ match_response = NoValue
    /\ skill_in = NoValue /\ skill_out = NoValue
    /\ adj_in = NoValue /\ adj_out = NoValue

\* the reply of POST /recommend for one result of generate_recommendations
RecommendReply(result) ==
    IF result.raised
    THEN [endpoint |-> "/recommend", status |-> 500, body |-> result]
    ELSE [endpoint |-> "/recommend", status |-> 200, body |-> result]

\* POST /recommend; the client may send the same request again
get_job_recommendations ==
    /\ svc = "recommender"
    /\ \/ pc = "received"
       \/ pc # "received" /\ rec_response.endpoint = "/recommend"
    /\ \E random_stream \in RandomStreams :
          \E result \in {generate_recommendations(rec_request, now, random_stream)} :
              /\ rec_response' = RecommendReply(result)
              /\ pc' = IF result.raised THEN "failed" ELSE "responded"
    /\ UNCHANGED <<svc, now, rec_request, match_request, match_response,
                   skill_in, skill_out, adj_in, adj_out>>

\* the reply of POST /for-you for one result of generate_recommendations
ForYouReply(result) ==
    IF result.raised
    THEN [endpoint |-> "/for-you", status |-> 500, body |-> <<>>]
    ELSE [endpoint |-> "/for-you", status |-> 200, body |-> result.personalized_feed]

\* POST /for-you
get_for_you_feed ==
    /\ svc = "recommender"
    /\ pc = "received"
    /\ \E random_stream \in RandomStreams :
          \E result \in {generate_recommendations(rec_request, now, random_stream)} :
              /\ rec_response' = ForYouReply(result)
              /\ pc' = IF result.raised THEN "failed" ELSE "responded"
    /\ UNCHANGED <<svc, now, rec_request, match_request, match_response,
                   skill_in, skill_out, adj_in, adj_out>>

\* the reply of POST /match
MatchReply(matches) ==
    [endpoint |-> "/match", status |-> 200,
     matches |-> matches,
     recommended_jobs |->
        [i \in 1..Min2(RecommendedJobsCap, Len(matches)) |-> matches[i].job_id]]

\* POST /match
semantic_job_matching ==
    /\ svc = "matcher"
    /\ pc = "received"
    /\ match_response' =
          MatchReply(match_jobs(match_request.candidate, match_request.jobs))
    /\ pc' = "responded"
    /\ UNCHANGED <<svc, now, rec_request, rec_response, match_request,
                   skill_in, skill_out, adj_in, adj_out>>

\* POST /rank
rank_jobs ==
    /\ svc = "matcher"
    /\ pc = "received"
    /\ match_response' =
          [endpoint |-> "/rank", status |-> 200,
           matches |-> match_jobs(match_request.candidate, match_request.jobs),
           recommended_jobs |-> <<>>]
    /\ pc' = "responded"
    /\ UNCHANGED <<svc, now, rec_request, rec_response, match_request,
                   skill_in, skill_out, adj_in, adj_out>>

Next ==
    \/ get_job_recommendations
    \/ get_for_you_feed
    \/ semantic_job_matching
    \/ rank_jobs

Spec == Init /\ [][Next]_vars

-----------------------------------------------------------------------------
(* SpecJob: the body of the loop of generate_recommendations applied to one
   job: the location dimension of its base score and its categorization *)

JobTitles == {Engineer, SeniorEngineer, LeadDeveloper, SeniorManager}
CurrentRoles == {Engineer, SeniorEngineer, LeadDeveloper}
JobLocations == {Berlin, Paris}
PreferredLocationLists == {<<>>, <<Berlin>>, <<berlin>>}
JobInputSkills == {Python, SQL}
JobInputReqs == {PythonAndSql, Django}

InitJob ==
    /\ svc = "job"
    /\ pc = "received"
    /\ now = 0
    /\ \E title \in JobTitles, location \in JobLocations, is_remote \in BOOLEAN,
          requirements \in SeqsUpTo(JobInputReqs, MaxReqs),
          current_role \in CurrentRoles,
          skills \in SeqsUpTo(JobInputSkills, MaxSkills),
          preferred_locations \in PreferredLocationLists :
          rec_request =
              [career_trajectory |->
                  [current_role |-> current_role, years_experience |-> 3,
                   skills |-> skills],
               preferences |->
                  [EngineerPreferences(NoSalary) EXCEPT
                      !.preferred_locations = preferred_locations],
               job |-> [id |-> 1] @@
                  [PlainJob EXCEPT !.title = title, !.location = location,
                                   !.is_remote = is_remote,
                                   !.requirements = requirements]]
    /\ rec_response = NoValue
    /\ match_request = NoValue /\ match_response = NoValue
    /\ skill_in = NoValue /\ skill_out = NoValue
    /\ adj_in = NoValue /\ adj_out = NoValue

\* one pass of `for job in request.job_pool`: the score after the location
\* dimension, what the skills dimension adds, growth_jobs and
\* recommendation_type
ScoreAndCategorizeJob ==
    /\ svc = "job"
    /\ pc = "received"
    /\ rec_response' =
          [location_credit |->
              LocationCredit(rec_request.preferences, rec_request.job),
           skills_credit |->
              SkillsCredit(rec_request.career_trajectory, rec_request.job),
           growth_jobs |->
              identify_career_growth_opportunities(rec_request.career_trajectory,
                                                   <<rec_request.job>>),
           recommendation_type |->
              RecommendationType(rec_request.career_trajectory, rec_request.job)]
    /\ pc' = "responded"
    /\ UNCHANGED <<svc, now, rec_request, match_request, match_response,
                   skill_in, skill_out, adj_in, adj_out>>

NextJob == ScoreAndCategorizeJob

SpecJob == InitJob /\ [][NextJob]_vars

-----------------------------------------------------------------------------
(* SpecValidate: POST /recommend from the request body on: the body is parsed
   into RecommendationRequest before get_job_recommendations runs *)

\* the fields of JobPosting without a default, among those the model carries
RequiredJobFields ==
    {"id", "title", "company", "location", "type", "description",
     "requirements", "industry", "experience_level"}

\* a job entry of the body that lacks the required field `industry`
MissingIndustryJob ==
    [f \in (DOMAIN PlainJob) \ {"industry"} |-> PlainJob[f]]

\* whether the entry parses as a JobPosting
IsJobPosting(entry) == RequiredJobFields \subseteq DOMAIN entry

InitValidate ==
    /\ svc = "validation"
    /\ pc = "received"
    /\ now = 0
    /\ \E user \in RecUsers,
          entries \in SeqsUpTo({SkillJob, PlainJob, MissingIndustryJob}, MaxRawJobs) :
          rec_request =
              [user_id |-> "user123",
               career_trajectory |-> user.career_trajectory,
               preferences |-> user.preferences,
               activity_history |-> <<>>,
               job_pool |-> [i \in 1..Len(entries) |-> [id |-> i] @@ entries[i]]]
    /\ rec_response = NoValue
    /\ match_request = NoValue /\ match_response = NoValue
    /\ skill_in = NoValue /\ skill_out = NoValue
    /\ adj_in = NoValue /\ adj_out = NoValue

\* POST /recommend with a body: a body of which an entry of job_pool is no
\* JobPosting is rejected as a whole (HTTP 422) and the handler does not run
post_recommend ==
    /\ svc = "validation"
    /\ pc = "received"
    /\ IF \A i \in 1..Len(rec_request.job_pool) :
             IsJobPosting(rec_request.job_pool[i])
       THEN \E random_stream \in RandomStreams :
               \E result \in {generate_recommendations(rec_request, now, random_stream)} :
                   /\ rec_response' = RecommendReply(result)
                   /\ pc' = IF result.raised THEN "failed" ELSE "responded"
       ELSE /\ rec_response' = [endpoint |-> "/recommend", status |-> 422,
                                body |-> NoValue]
            /\ pc' = "rejected"
    /\ UNCHANGED <<svc, now, rec_request, match_request, match_response,
                   skill_in, skill_out, adj_in, adj_out>>

NextValidate == post_recommend

SpecValidate == InitValidate /\ [][NextValidate]_vars

-----------------------------------------------------------------------------
(* SpecComponents: the four similarity functions of the matcher applied to a
   candidate and one job, as match_jobs calls them *)

InitComponents ==
    /\ svc = "components"
    /\ pc = "received"
    /\ now = 0
    /\ match_request \in
          [candidate :
              [skills : SeqsUpTo({Python, SQL}, MaxSkills),
               experience : {<<>>, <<PythonServices>>, <<StopWordsOnly>>,
                             <<DataTeam>>, <<DataTeam, DataServices>>},
               preferred_locations : {<<>>, <<berlin>>},
               job_types : {<<>>, <<FullTimeAlt>>}],
           job : {[id |-> 1] @@ MatchSkillJob, [id |-> 1] @@ MatchPlainJob,
                  [id |-> 1] @@ MatchEmptyJob,
                  [id |-> 1] @@ [MatchPlainJob EXCEPT !.description = StopWordsOnly]}]
    /\ match_response = NoValue
    /\ rec_request = NoValue /\ rec_response = NoValue
    /\ skill_in = NoValue /\ skill_out = NoValue
    /\ adj_in = NoValue /\ adj_out = NoValue

\* the four similarities and the weighted score made of them
Similarities(skill, experience_similarity, location_similarity, job_type_similarity) ==
    [skill |-> skill,
     experience_similarity |-> experience_similarity,
     location_similarity |-> location_similarity,
     job_type_similarity |-> job_type_similarity,
     overall_similarity |->
        OverallSimilarity(skill.similarity_score, experience_similarity,
                          location_similarity, job_type_similarity)]

\* the head of the loop body of match_jobs: the four calls and the weighted sum
ComputeSimilarities ==
    /\ svc = "components"
    /\ pc = "received"
    /\ match_response' =
          Similarities(
              calculate_skill_similarity(match_request.candidate.skills,
                                         match_request.job.requirements),
              calculate_experience_similarity(match_request.candidate.experience,
                                              match_request.job.description),
              calculate_location_match(match_request.candidate.preferred_locations,
                                       match_request.job.location),
              calculate_job_type_match(match_request.candidate.job_types,
                                       match_request.job.type))
    /\ pc' = "responded"
    /\ UNCHANGED <<svc, now, match_request, rec_request, rec_response,
                   skill_in, skill_out, adj_in, adj_out>>

NextComponents == ComputeSimilarities

SpecComponents == InitComponents /\ [][NextComponents]_vars

-----------------------------------------------------------------------------
(* SpecProxy: the endpoints of the backend that forward a request to a
   microservice (backend/app/job_matcher.py, backend/app/job_recommender.py).
   The four handlers have the same body; what the microservice does with the
   forwarded request is the input. *)

\* what awaiting client.post(...) gives: a subclass of httpx.RequestError
\* raised, or a response with its status code and text
UpstreamOutcomes ==
    [kind : {"raises"}, error : {"ConnectError", "ConnectTimeout", "ReadTimeout"}]
        \cup [kind : {"response"},
              status_code : {200, 400, 404, 422, 500, 502, 503},
              text : {"{}", "[]", "{\"detail\": \"error\"}"}]

\* the body of the try block: the exception that leaves it, or the value
\* it returns
ForwardRequest(upstream) ==
    IF upstream.kind = "raises"
    THEN [raised |-> "httpx.RequestError", detail |-> upstream.error]
    ELSE IF upstream.status_code # 200
    THEN [raised |-> "HTTPException", status_code |-> upstream.status_code,
          detail |-> upstream.text]
    ELSE [raised |-> "none", value |-> upstream.text]

\* the except clauses of the handler, in order: httpx.RequestError, then
\* Exception, which an HTTPException raised in the try block is too
ProxyReply(attempt) ==
    IF attempt.raised = "httpx.RequestError"
    THEN [status |-> 503, body |-> [detail |-> attempt.detail]]
    ELSE IF attempt.raised = "HTTPException"
    THEN [status |-> 500, body |-> [detail |-> attempt.detail]]
    ELSE [status |-> 200, body |-> attempt.value]

InitProxy ==
    /\ svc = "proxy"
    /\ pc = "received"
    /\ now = 0
    /\ rec_request \in
          [endpoint : {"/ai/job-matcher/match", "/ai/job-matcher/rank",
                       "/ai/job-recommender/recommend", "/ai/job-recommender/for-you"},
           upstream : UpstreamOutcomes]
    /\ rec_response = NoValue
    /\ match_request = NoValue /\ match_response = NoValue
    /\ skill_in = NoValue /\ skill_out = NoValue
    /\ adj_in = NoValue /\ adj_out = NoValue

\* a handler of the backend serving the request of its endpoint
ProxyHandler(endpoint) ==
    /\ svc = "proxy"
    /\ pc = "received"
    /\ rec_request.endpoint = endpoint
    /\ rec_response' = ProxyReply(ForwardRequest(rec_request.upstream))
    /\ pc' = "responded"
    /\ UNCHANGED <<svc, now, skill_in, skill_out, adj_in, adj_out,
                   match_request, match_response, rec_request>>

\* POST /ai/job-matcher/match
backend_semantic_job_matching == ProxyHandler("/ai/job-matcher/match")

\* POST /ai/job-matcher/rank
backend_rank_jobs == ProxyHandler("/ai/job-matcher/rank")

\* POST /ai/job-recommender/recommend
backend_get_job_recommendations == ProxyHandler("/ai/job-recommender/recommend")

\* POST /ai/job-recommender/for-you
backend_get_for_you_feed == ProxyHandler("/ai/job-recommender/for-you")

NextProxy ==
    \/ backend_semantic_job_matching
    \/ backend_rank_jobs
    \/ backend_get_job_recommendations
    \/ backend_get_for_you_feed

SpecProxy == InitProxy /\ [][NextProxy]_vars

-----------------------------------------------------------------------------
(* SpecSearch: GET /jobs/search of the backend (backend/app/job_search.py)
   with the result cache of backend/app/cache.py in front of both search
   functions. A job carries the fields the filters read; None is the empty
   sequence, an Optional[bool] a sequence of at most one boolean. Requests
   follow one another, the cache is kept between them. *)

MaxSearches == 2

\* the jobs of the local data set
sample_jobs ==
    <<
      \* Senior Software Engineer, TechCorp Inc.
      [id |-> 1,
       title |-> <<"S","e","n","i","o","r"," ","S","o","f","t","w","a","r","e"," ","E","n","g","i","n","e","e","r">>,
       company |-> <<"T","e","c","h","C","o","r","p"," ","I","n","c",".">>,
       location |-> <<"S","a","n"," ","F","r","a","n","c","i","s","c","o",","," ","C","A">>,
       type |-> <<"F","u","l","l","-","t","i","m","e">>,
       remote |-> TRUE,
       description |->
         <<"J","o","i","n"," ","o","u","r"," ","t","e","a","m"," ","t","o"," ","b","u","i","l","d"," ","s","c","a","l","a","b","l","e"," ","w","e","b"," ","a","p","p","l","i","c","a","t","i","o","n","s"," ","u","s","i","n","g"," ","R","e","a","c","t",","," ","N","o","d","e",".","j","s",","," ","a","n","d"," ","c","l","o","u","d"," ","t","e","c","h","n","o","l","o","g","i","e","s","."," ","Y","o","u"," ","w","i","l","l"," ","w","o","r","k"," ","o","n"," ","e","x","c","i","t","i","n","g"," ","p","r","o","j","e","c","t","s"," ","t","h","a","t"," ","i","m","p","a","c","t"," ","m","i","l","l","i","o","n","s"," ","o","f"," ","u","s","e","r","s",".">>],
      \* Data Scientist, DataFlow Analytics
      [id |-> 2,
       title |-> <<"D","a","t","a"," ","S","c","i","e","n","t","i","s","t">>,
       company |-> <<"D","a","t","a","F","l","o","w"," ","A","n","a","l","y","t","i","c","s">>,
       location |-> <<"R","e","m","o","t","e">>,
       type |-> <<"F","u","l","l","-","t","i","m","e">>,
       remote |-> TRUE,
       description |->
         <<"W","o","r","k"," ","w","i","t","h"," ","m","a","c","h","i","n","e"," ","l","e","a","r","n","i","n","g"," ","m","o","d","e","l","s"," ","a","n","d"," ","b","i","g"," ","d","a","t","a"," ","t","o"," ","d","e","r","i","v","e"," ","a","c","t","i","o","n","a","b","l","e"," ","i","n","s","i","g","h","t","s"," ","f","o","r"," ","o","u","r"," ","c","l","i","e","n","t","s","."," ","Y","o","u"," ","w","i","l","l"," ","b","e"," ","r","e","s","p","o","n","s","i","b","l","e"," ","f","o","r"," ","b","u","i","l","d","i","n","g"," ","p","r","e","d","i","c","t","i","v","e"," ","m","o","d","e","l","s"," ","a","n","d"," ","d","a","t","a"," ","p","i","p","e","l","i","n","e","s",".">>],
      \* UX Designer, Design Studio
      [id |-> 3,
       title |-> <<"U","X"," ","D","e","s","i","g","n","e","r">>,
       company |-> <<"D","e","s","i","g","n"," ","S","t","u","d","i","o">>,
       location |-> <<"N","e","w"," ","Y","o","r","k",","," ","N","Y">>,
       type |-> <<"F","u","l","l","-","t","i","m","e">>,
       remote |-> FALSE,
       description |->
         <<"C","r","e","a","t","e"," ","b","e","a","u","t","i","f","u","l"," ","a","n","d"," ","i","n","t","u","i","t","i","v","e"," ","u","s","e","r"," ","e","x","p","e","r","i","e","n","c","e","s"," ","f","o","r"," ","o","u","r"," ","d","i","g","i","t","a","l"," ","p","r","o","d","u","c","t","s","."," ","Y","o","u"," ","w","i","l","l"," ","w","o","r","k"," ","c","l","o","s","e","l","y"," ","w","i","t","h"," ","p","r","o","d","u","c","t"," ","m","a","n","a","g","e","r","s"," ","a","n","d"," ","d","e","v","e","l","o","p","e","r","s"," ","t","o"," ","b","r","i","n","g"," ","d","e","s","i","g","n","s"," ","t","o"," ","l","i","f","e",".">>]
    >>

\* str.strip() of a text
RECURSIVE Strip(_)
Strip(v) ==
    IF v = <<>> THEN v
    ELSE IF Head(v) = " " THEN Strip(Tail(v))
    ELSE IF v[Len(v)] = " " THEN Strip(SubSeq(v, 1, Len(v) - 1))
    ELSE v

\* validate_keyword, validate_location, validate_company: v.strip()[:100]
validate_keyword(v) ==
    ValueOf({SubSeq(stripped, 1, Min2(100, Len(stripped))) : stripped \in {Strip(v)}})

validate_limit(v) == IF v < 1 THEN 1 ELSE IF v > 100 THEN 100 ELSE v

validate_offset(v) == IF v < 0 THEN 0 ELSE v

\* JobSearchRequest(...) of get_jobs: the validated request
JobSearchRequest(keyword, location, jobType, company, remote, limit, offset) ==
    [keyword |-> validate_keyword(keyword),
     location |-> validate_keyword(location),
     jobType |-> jobType,
     company |-> validate_keyword(company),
     remote |-> remote,
     limit |-> validate_limit(limit),
     offset |-> validate_offset(offset)]

\* the filters of search_jobs_locally on one job
PassesFilters(request, job) ==
    /\ request.keyword # <<>> =>
          \E keyword \in {Lower(request.keyword)} :
              \/ Contains(Lower(job.title), keyword)
              \/ Contains(Lower(job.company), keyword)
              \/ Contains(Lower(job.description), keyword)
    /\ request.location # <<>> =>
          Contains(Lower(job.location), Lower(request.location))
    /\ request.jobType # <<>> => Lower(job.type) = Lower(request.jobType)
    /\ request.company # <<>> =>
          Contains(Lower(job.company), Lower(request.company))
    /\ request.remote # <<>> => job.remote = request.remote[1]

\* the page of the filtered jobs and the pagination fields
Paginate(filtered_jobs, offset, limit) ==
    [jobs |-> SubSeq(filtered_jobs, offset + 1, Min2(offset + limit, Len(filtered_jobs))),
     total |-> Len(filtered_jobs),
     hasMore |-> offset + limit < Len(filtered_jobs)]

\* the body of search_jobs_locally
LocalSearch(request) ==
    Paginate(SelectSeq(sample_jobs, LAMBDA job : PassesFilters(request, job)),
             IF request.offset = 0 THEN 0 ELSE request.offset,
             IF request.limit = 0 THEN 20 ELSE request.limit)

\* what the cache keeps and gives back for a result: json.dumps(result,
\* default=str) turns a response model into the JSON string of its str(), and
\* json.loads gives that string back; a string stays the string it is
Cached(result) ==
    IF "python_str" \in DOMAIN result THEN result ELSE [python_str |-> result]

\* the cache after setex(key, ..., value); a key is the name of the function
\* with its argument
CacheSet(cache, key, value) ==
    [k \in DOMAIN cache \cup {key} |-> IF k = key THEN value ELSE cache[k]]

\* the value of a decorated call and the cache after it: a hit gives the
\* cached value, a miss the given result, kept when redis answers then
CacheResult(cache, key, get_connected, set_connected, result) ==
    IF get_connected /\ key \in DOMAIN cache
    THEN [raised |-> FALSE, value |-> cache[key], cache |-> cache]
    ELSE [raised |-> FALSE, value |-> result,
          cache |-> IF set_connected THEN CacheSet(cache, key, Cached(result))
                    ELSE cache]

\* search_jobs_locally as decorated with cache_result
search_jobs_locally(cache, request, redis) ==
    CacheResult(cache, <<"search_jobs_locally", request>>,
                redis.local_get, redis.local_set, LocalSearch(request))

\* a job of the Adzuna payload as a Job
AdzunaJob(adzuna_job, i) ==
    [id |-> i,
     title |-> IF "title" \in DOMAIN adzuna_job THEN adzuna_job.title
               ELSE <<"U","n","t","i","t","l","e","d">>,
     company |-> <<"U","n","k","n","o","w","n"," ","C","o","m","p","a","n","y">>,
     location |-> <<"U","n","k","n","o","w","n"," ","L","o","c","a","t","i","o","n">>,
     type |-> <<"F","u","l","l","-","t","i","m","e">>,
     remote |-> \/ Contains(Lower(IF "title" \in DOMAIN adzuna_job
                                  THEN adzuna_job.title ELSE <<>>),
                            <<"r","e","m","o","t","e">>)
                \/ Contains(Lower(adzuna_job.description), <<"r","e","m","o","t","e">>),
     description |-> adzuna_job.description]

\* the JobSearchResponse made of the payload of Adzuna
AdzunaResponse(request, data) ==
    [jobs |-> [i \in 1..Len(data.results) |-> AdzunaJob(data.results[i], i)],
     total |-> data.count,
     hasMore |-> data.count > request.offset + Len(data.results)]

\* what the call of the Adzuna API does: no call for want of credentials, a
\* timeout, a request error, an HTTP error status, a body that is no JSON,
\* or a payload; "raises" is an exception leaving search_jobs_adzuna
AdzunaOutcomes ==
    [kind : {"no_credentials", "timeout", "request_error", "http_error",
             "bad_json", "raises"}]
        \cup [kind : {"payload"},
              data : {[count |-> 3,
                       results |-> <<[title |-> <<"R","e","m","o","t","e"," ","D","e","v">>,
                                      description |-> <<"A","P","I","s">>],
                                     [description |-> <<"O","n"," ","s","i","t","e">>]>>]}]

\* the body of search_jobs_adzuna after the cache lookup missed
AdzunaSearch(cache, request, adzuna, redis) ==
    IF adzuna.kind = "raises"
    THEN [raised |-> TRUE, cache |-> cache]
    ELSE IF adzuna.kind = "payload"
    THEN CacheResult(cache, <<"search_jobs_adzuna", request>>,
                     FALSE, redis.adzuna_set, AdzunaResponse(request, adzuna.data))
    ELSE \* no credentials, or one of the three except clauses
         ValueOf({CacheResult(local.cache, <<"search_jobs_adzuna", request>>,
                              FALSE, redis.adzuna_set, local.value) :
                  local \in {search_jobs_locally(cache, request, redis)}})

\* whether the decorated search_jobs_adzuna answers from the cache
AdzunaCacheHit(cache, request, redis) ==
    redis.adzuna_get /\ <<"search_jobs_adzuna", request>> \in DOMAIN cache

\* search_jobs_adzuna as decorated with cache_result
search_jobs_adzuna(cache, request, adzuna, redis) ==
    IF AdzunaCacheHit(cache, request, redis)
    THEN [raised |-> FALSE, value |-> cache[<<"search_jobs_adzuna", request>>],
          cache |-> cache]
    ELSE AdzunaSearch(cache, request, adzuna, redis)

\* the try statement of get_jobs
SearchWithFallback(cache, request, adzuna, redis) ==
    ValueOf({IF attempt.raised THEN search_jobs_locally(cache, request, redis)
             ELSE attempt :
             attempt \in {search_jobs_adzuna(cache, request, adzuna, redis)}})

\* the response of the endpoint for what the handler returns, under
\* response_model=JobSearchResponse: a value that is no such model fails the
\* validation of the response
SearchReply(value) ==
    IF "python_str" \in DOMAIN value
    THEN [status |-> 500, body |-> "Internal Server Error"]
    ELSE [status |-> 200, body |-> value]

InitSearch ==
    /\ svc = "search"
    /\ pc = "idle"
    /\ now = 0
    /\ match_request = <<>>         \* the entries of the cache
    /\ rec_request = NoValue        \* the request served last
    /\ rec_response = NoValue       \* its response
    /\ match_response = NoValue
    /\ skill_in = NoValue /\ skill_out = NoValue
    /\ adj_in = NoValue /\ adj_out = NoValue

\* GET /jobs/search: the validated request, the outcome of the Adzuna call if
\* one is made, and whether redis answers at each use of the cache
get_jobs ==
    /\ svc = "search"
    /\ now < MaxSearches
    /\ \E query \in {[keyword |-> <<>>, remote |-> <<>>, limit |-> 0, offset |-> 1],
                       [keyword |-> <<" ","D","a","t","a"," ">>, remote |-> <<TRUE>>,
                        limit |-> 20, offset |-> 0]},
          redis \in [adzuna_get : BOOLEAN, local_get : BOOLEAN,
                     local_set : BOOLEAN, adzuna_set : BOOLEAN] :
          \E request \in {JobSearchRequest(query.keyword, <<>>, <<>>, <<>>, query.remote,
                                            query.limit, query.offset)} :
             \E adzuna \in IF AdzunaCacheHit(match_request, request, redis)
                           THEN {[kind |-> "not_called"]} ELSE AdzunaOutcomes :
                \E result \in {SearchWithFallback(match_request, request, adzuna, redis)} :
                   /\ rec_request' = [request |-> request, adzuna |-> adzuna]
                   /\ rec_response' = SearchReply(result.value)
                   /\ match_request' = result.cache
    /\ now' = now + 1
    /\ pc' = "responded"
    /\ UNCHANGED <<svc, skill_in, skill_out, adj_in, adj_out, match_response>>

\* an entry of the cache reaches its expiration time
cache_expires ==
    /\ svc = "search"
    /\ \E key \in DOMAIN match_request :
          match_request' = [k \in DOMAIN match_request \ {key} |-> match_request[k]]
    /\ UNCHANGED <<svc, pc, now, skill_in, skill_out, adj_in, adj_out,
                   match_response, rec_request, rec_response>>

NextSearch == get_jobs \/ cache_expires

SpecSearch == InitSearch /\ [][NextSearch]_vars

-----------------------------------------------------------------------------
(* Helpers of the properties *)

Range(xs) == {xs[i] : i \in 1..Len(xs)}
Count(x, xs) == Cardinality({i \in 1..Len(xs) : xs[i] = x})
NoDuplicates(xs) == \A i, j \in 1..Len(xs) : xs[i] = xs[j] => i = j

-----------------------------------------------------------------------------
(* Properties of calculate_skill_similarity, under SpecSkill *)

SkillDone == svc = "skill" /\ pc = "responded"

C5_OriginalPhrasingKept ==
    SkillDone =>
        /\ Range(skill_out.matching_skills) \cup Range(skill_out.missing_skills)
              \subseteq Range(skill_in.job_requirements)
        /\ (skill_in.candidate_skills = <<Python, SQL>>
            /\ skill_in.job_requirements = <<Python, Django, AWS>>)
           => skill_out = [similarity_score |-> Rat(1, 3),
                           matching_skills |-> <<Python>>,
                           missing_skills |-> <<Django, AWS>>]

\* the matching rules of C23 for a normalized requirement and skill: equal,
\* one a substring of the other, or both in one group of skill_variations
RuleMatches(req, skill) ==
    \/ req = skill
    \/ Contains(skill, req)
    \/ Contains(req, skill)
    \/ \E g \in 1..Len(skill_variations) :
          /\ \E a \in 1..Len(skill_variations[g]) : skill_variations[g][a] = req
          /\ \E b \in 1..Len(skill_variations[g]) : skill_variations[g][b] = skill

\* the positions of the requirements that some skill matches by a rule
RuleMatchedPositions(skills, reqs) ==
    {j \in 1..Len(reqs) : \E i \in 1..Len(skills) : RuleMatches(reqs[j], skills[i])}

\* C23: a requirement is reported matched if and only if some candidate
\* skill, after normalization, equals it, contains it, is contained in it or
\* shares a skill_variations group with it, whatever the order of the skills;
\* each requirement occurrence is appended at most once: the matched list is
\* the list of the requirements some skill matches, in order, and the missing
\* list the list of the others.
C23_MatchedIffSomeRule ==
    SkillDone =>
        LET skills == NormalizeAll(skill_in.candidate_skills)
            reqs == NormalizeAll(skill_in.job_requirements)
            hit == RuleMatchedPositions(skills, reqs)
        IN  /\ skill_out.matching_skills
                 = SelectSeq(reqs, LAMBDA r : \E i \in 1..Len(skills) :
                                                  RuleMatches(r, skills[i]))
            /\ skill_out.missing_skills
                 = SelectSeq(reqs, LAMBDA r : ~\E i \in 1..Len(skills) :
                                                   RuleMatches(r, skills[i]))
            /\ Len(skill_out.matching_skills) = Cardinality(hit)

\* C23 witness: a requirement that two skills match through a variation
\* group only, and that is appended once.
C23_Witness ==
    /\ SkillDone
    /\ Len(skill_in.candidate_skills) = 2
    /\ Len(skill_in.job_requirements) = 1
    /\ LET skills == NormalizeAll(skill_in.candidate_skills)
           req == normalize_text(skill_in.job_requirements[1])
       IN  /\ \A i \in 1..2 : RuleMatches(req, skills[i])
           /\ \A i \in 1..2 : ~Contains(skills[i], req) /\ ~Contains(req, skills[i])
    /\ Len(skill_out.matching_skills) = 1

-----------------------------------------------------------------------------
(* Properties of adjust_for_activity_history, under SpecAdjust *)

AdjustDone == svc = "adjust" /\ pc = "responded"

\* number of events of the history that pass the recency filter, are about
\* job_id and carry the given action
CountRecent(history, job_id, action, clock) ==
    Cardinality({i \in 1..Len(history) :
                    /\ IsRecent(history[i], clock)
                    /\ history[i].job_id = job_id
                    /\ history[i].action = action})

OutsideTrailingWindow(activity, clock) ==
    \/ activity.timestamp.day < clock - WindowDays
    \/ activity.timestamp.day > clock

\* C7: events older than 30 days before now, or dated after now, leave the
\* score unchanged: the result is the one the history without them gives.
C7_OutsideWindowIgnored ==
    AdjustDone =>
        LET inside == SelectSeq(adj_in.activity_history,
                                LAMBDA a : ~OutsideTrailingWindow(a, now))
        IN  adj_out = adjust_for_activity_history(adj_in.score, adj_in.job_id,
                                                  inside, now)

-----------------------------------------------------------------------------
(* Properties of the two services, under Spec *)

RecommendDone ==
    svc = "recommender" /\ pc = "responded" /\ rec_response.endpoint = "/recommend"

ForYouDone ==
    svc = "recommender" /\ pc = "responded" /\ rec_response.endpoint = "/for-you"

MatchDone == svc = "matcher" /\ pc = "responded"

InUnitInterval(r) == RLe(Zero, r) /\ RLe(r, One)

\* the lists of a RecommendationResponse
ResponseLists(body) ==
    {body.recommendations, body.personalized_feed,
     body.career_growth_opportunities, body.skill_based_matches,
     body.new_opportunities}

\* what C3 compares in a list: the jobs in order, each with its score
IdsAndScores(xs) ==
    [i \in 1..Len(xs) |-> <<xs[i].job_id, xs[i].match_score>>]

\* C1: `recommendations` of the response holds exactly one result per job of
\* the pool: as many results as jobs, every job id of the pool exactly once.
C1_OneResultPerJob ==
    RecommendDone =>
        LET recs == rec_response.body.recommendations
            pool == rec_request.job_pool
        IN  /\ Len(recs) = Len(pool)
            /\ \A i \in 1..Len(pool) :
                   Cardinality({k \in 1..Len(recs) :
                                   recs[k].job_id = pool[i].id}) = 1

C3_RerunsIdentical ==
    [][(RecommendDone /\ RecommendDone') =>
          /\ IdsAndScores(rec_response'.body.recommendations)
                = IdsAndScores(rec_response.body.recommendations)
          /\ IdsAndScores(rec_response'.body.personalized_feed)
                = IdsAndScores(rec_response.body.personalized_feed)
          /\ IdsAndScores(rec_response'.body.career_growth_opportunities)
                = IdsAndScores(rec_response.body.career_growth_opportunities)
          /\ IdsAndScores(rec_response'.body.skill_based_matches)
                = IdsAndScores(rec_response.body.skill_based_matches)
          /\ IdsAndScores(rec_response'.body.new_opportunities)
                = IdsAndScores(rec_response.body.new_opportunities)]_vars

\* the request without the events whose job_id is the id of no job of the pool
WithoutUnknownJobs(request) ==
    [request EXCEPT !.activity_history =
        SelectSeq(request.activity_history,
                  LAMBDA a : \E j \in 1..Len(request.job_pool) :
                                 request.job_pool[j].id = a.job_id)]

\* C8: events whose job_id matches no job of the pool change nothing and
\* never make the run fail: the reply (success or failure, every score,
\* category and order) is one the request without these events can get.
C8_UnknownJobEventsIgnored ==
    (svc = "recommender" /\ pc # "received"
        /\ rec_response.endpoint = "/recommend") =>
        \E random_stream \in RandomStreams :
            rec_response = RecommendReply(generate_recommendations(
                               WithoutUnknownJobs(rec_request), now, random_stream))

\* C9: `recommendations` of generate_recommendations and the list of
\* match_jobs are in non-increasing score order: each result's score is at
\* least the score of the result that follows it.
C9_NonIncreasingScores ==
    /\ RecommendDone =>
          LET recs == rec_response.body.recommendations
          IN  \A i \in 1..(Len(recs) - 1) :
                  RLe(recs[i + 1].match_score, recs[i].match_score)
    /\ MatchDone =>
          LET matches == match_response.matches
          IN  \A i \in 1..(Len(matches) - 1) :
                  RLe(matches[i + 1].similarity_score, matches[i].similarity_score)

\* C9 witness: a non-empty `recommendations` in which the score really drops
\* between two adjacent results, for a pool whose first job is not its best.
C9_Witness ==
    /\ RecommendDone
    /\ LET recs == rec_response.body.recommendations
       IN  /\ \E i \in 1..(Len(recs) - 1) :
                  RLt(recs[i + 1].match_score, recs[i].match_score)
           /\ recs[1].job_id # rec_request.job_pool[1].id

\* C10: two results with the same score stand in the ranked output of
\* match_jobs and of generate_recommendations in the order their jobs have
\* in the input pool (the id of a job of these pools is its position).
C10_TiesKeepInputOrder ==
    /\ RecommendDone =>
          LET recs == rec_response.body.recommendations
          IN  \A i, j \in 1..Len(recs) :
                  (i < j /\ recs[i].match_score = recs[j].match_score)
                      => recs[i].job_id < recs[j].job_id
    /\ MatchDone =>
          LET matches == match_response.matches
          IN  \A i, j \in 1..Len(matches) :
                  (i < j /\ matches[i].similarity_score = matches[j].similarity_score)
                      => matches[i].job_id < matches[j].job_id

\* C10 witness: match_jobs returns two results with the same score, and the
\* sort has moved a job in front of one that precedes it in the pool.
C10_Witness ==
    /\ MatchDone
    /\ LET matches == match_response.matches
       IN  /\ \E i, j \in 1..Len(matches) :
                  i < j /\ matches[i].similarity_score = matches[j].similarity_score
           /\ \E i, j \in 1..Len(matches) :
                  i < j /\ matches[i].job_id > matches[j].job_id

-----------------------------------------------------------------------------
(* Further properties of the two services, under Spec *)

\* C14: personalized_feed has at most 10 entries, and
\* career_growth_opportunities, skill_based_matches and new_opportunities at
\* most 5 each, whatever the size of the pool.
C14_ListsWithinCaps ==
    /\ RecommendDone =>
          /\ Len(rec_response.body.personalized_feed) <= 10
          /\ Len(rec_response.body.career_growth_opportunities) <= 5
          /\ Len(rec_response.body.skill_based_matches) <= 5
          /\ Len(rec_response.body.new_opportunities) <= 5
    /\ ForYouDone => Len(rec_response.body) <= 10

\* C14 witness: a pool of more than 10 jobs, more than 5 of them of one
\* specialized category, with the feed and that category at their caps.
C14_Witness ==
    /\ RecommendDone
    /\ Len(rec_request.job_pool) > 10
    /\ Cardinality({j \in 1..Len(rec_request.job_pool) :
          RecommendationType(rec_request.career_trajectory,
                             rec_request.job_pool[j]) = "skill_match"}) > 5
    /\ Len(rec_response.body.personalized_feed) = 10
    /\ Len(rec_response.body.skill_based_matches) = 5

\* the list holds the highest-scoring jobs of the type among the scored jobs,
\* in rank order, and nothing else: min(cap, number of qualifying jobs) entries
IsTopOfType(list, scored, type) ==
    LET qualifying == {i \in 1..Len(scored) : scored[i].recommendation_type = type}
        listed == {i \in qualifying :
                      \E k \in 1..Len(list) : list[k].job_id = scored[i].job_id}
    IN  /\ Len(list) = Min2(5, Cardinality(qualifying))
        /\ Cardinality(listed) = Len(list)
        /\ \A k \in 1..Len(list) :
              /\ list[k].recommendation_type = type
              /\ \E i \in qualifying :
                    /\ scored[i].job_id = list[k].job_id
                    /\ scored[i].match_score = list[k].match_score
        /\ \A k \in 1..(Len(list) - 1) :
              RLe(list[k + 1].match_score, list[k].match_score)
        /\ \A i \in qualifying \ listed : \A k \in 1..Len(list) :
              RLe(scored[i].match_score, list[k].match_score)

InsertAt(xs, p, x) == SubSeq(xs, 1, p) \o <<x>> \o SubSeq(xs, p + 1, Len(xs))

\* the JobMatch of the job for the candidate with one more skill
MatchWithSkill(job, p, skill) ==
    MatchOne([match_request.candidate EXCEPT !.skills = InsertAt(@, p, skill)], job)

\* C16: adding to the candidate's skills (anywhere in the list) a skill equal
\* to a requirement of a job that was missing never lowers the job's coverage
\* nor its final similarity_score, and no requirement that was matched
\* becomes missing.
C16_AddedSkillNeverLowers ==
    MatchDone =>
        \A k \in 1..Len(match_response.matches) :
            \A m \in {match_response.matches[k]} :
            \A job \in {match_request.jobs[m.job_id]} :
            \A j \in 1..Len(job.requirements) :
                normalize_text(job.requirements[j]) \in Range(m.missing_skills) =>
                    \A p \in 0..Len(match_request.candidate.skills) :
                    \A m2 \in {MatchWithSkill(job, p, job.requirements[j])} :
                        /\ RLe(m.similarity_score, m2.similarity_score)
                        /\ Len(m.matching_skills) <= Len(m2.matching_skills)
                        /\ Len(m2.matching_skills) + Len(m2.missing_skills)
                              = Len(m.matching_skills) + Len(m.missing_skills)
                        /\ Range(m.matching_skills) \cap Range(m2.missing_skills) = {}

\* C16 witness: a job with a matched and a missing requirement; adding the
\* missing one as a skill raises its final score.
C16_Witness ==
    /\ MatchDone
    /\ \E k \in 1..Len(match_response.matches) :
          \E m \in {match_response.matches[k]} :
          \E job \in {match_request.jobs[m.job_id]} :
          \E j \in 1..Len(job.requirements) :
              /\ m.matching_skills # <<>>
              /\ normalize_text(job.requirements[j]) \in Range(m.missing_skills)
              /\ RLt(m.similarity_score,
                     MatchWithSkill(job, 0, job.requirements[j]).similarity_score)

\* C19: generate_recommendations never raises on a request the request
\* models accept: every request gets a response, none an error.
C19_NeverRaises ==
    (svc = "recommender" /\ pc # "received") =>
        /\ pc = "responded"
        /\ rec_response.status = 200

\* the job ids of a list of results, in order
JobIds(list) == [k \in 1..Len(list) |-> list[k].job_id]

\* C26: personalized_feed never holds the same job twice, also when it is
\* filled up from the ranked list.
C26_FeedWithoutDuplicates ==
    /\ RecommendDone => NoDuplicates(JobIds(rec_response.body.personalized_feed))
    /\ ForYouDone => NoDuplicates(JobIds(rec_response.body))

\* C27: no job is in more than one of personalized_feed,
\* career_growth_opportunities, skill_based_matches and new_opportunities.
C27_CategoriesDisjoint ==
    RecommendDone =>
        \A a, b \in {"personalized_feed", "career_growth_opportunities",
                     "skill_based_matches", "new_opportunities"} :
            a # b => Range(JobIds(rec_response.body[a]))
                         \cap Range(JobIds(rec_response.body[b])) = {}

\* C28: personalized_feed, career_growth_opportunities, skill_based_matches
\* and new_opportunities are each in non-increasing order of match_score.
C28_CategoriesSorted ==
    RecommendDone =>
        \A a \in {"personalized_feed", "career_growth_opportunities",
                  "skill_based_matches", "new_opportunities"} :
            \A k \in 1..(Len(rec_response.body[a]) - 1) :
                RLe(rec_response.body[a][k + 1].match_score,
                    rec_response.body[a][k].match_score)

\* C30: no result has the type new_opportunity, in whatever list of the
\* response, and new_opportunities is empty for every request.
C30_NoNewOpportunities ==
    /\ RecommendDone =>
          /\ rec_response.body.new_opportunities = <<>>
          /\ \A list \in ResponseLists(rec_response.body) :
                \A k \in 1..Len(list) :
                    list[k].recommendation_type
                        \in {"for_you", "career_growth", "skill_match"}
    /\ ForYouDone =>
          \A k \in 1..Len(rec_response.body) :
              rec_response.body[k].recommendation_type # "new_opportunity"

\* C30 witness: a response for a pool with jobs that pass neither the skill
\* test nor the seniority test, and new_opportunities is empty all the same.
C30_Witness ==
    /\ RecommendDone
    /\ \E i \in 1..Len(rec_request.job_pool) :
          /\ 2 * SkillMatches(rec_request.career_trajectory.skills,
                              rec_request.job_pool[i].requirements)
                 <= Len(rec_request.job_pool[i].requirements)
          /\ ~IsGrowthOpportunity(rec_request.career_trajectory, rec_request.job_pool[i])
    /\ \E k \in 1..Len(rec_response.body.personalized_feed) :
          rec_response.body.personalized_feed[k].recommendation_type = "for_you"
    /\ rec_response.body.new_opportunities = <<>>

-----------------------------------------------------------------------------
(* Properties of the loop body of generate_recommendations, under SpecJob *)

JobDone == svc = "job" /\ pc = "responded"

SeniorityKeywords ==
    {<<"s","e","n","i","o","r">>, <<"l","e","a","d">>,
     <<"m","a","n","a","g","e","r">>}

\* the seniority condition of C11 and C13: some keyword is in the title and
\* not in the current role, letter case ignored
SeniorityStep(career_trajectory, job) ==
    \E k \in SeniorityKeywords :
        /\ Contains(Lower(job.title), k)
        /\ ~Contains(Lower(career_trajectory.current_role), k)

\* the skill condition as the code tests it: the skills found in some
\* requirement are more than half as many as the requirements
SkillCondition(career_trajectory, job) ==
    2 * Cardinality({i \in 1..Len(career_trajectory.skills) :
                        \E j \in 1..Len(job.requirements) :
                            Contains(Lower(job.requirements[j]),
                                     Lower(career_trajectory.skills[i]))})
        > Len(job.requirements)

\* the requirements matched by some skill of the candidate
MatchedRequirements(career_trajectory, job) ==
    {j \in 1..Len(job.requirements) :
        \E i \in 1..Len(career_trajectory.skills) :
            Contains(Lower(job.requirements[j]), Lower(career_trajectory.skills[i]))}

\* C11: every job gets exactly one of for_you, career_growth, skill_match:
\* skill_match whenever the skill condition holds (also when the seniority
\* condition holds), career_growth when only the seniority condition holds,
\* for_you when neither holds.
C11_OneTypeSkillMatchWins ==
    JobDone =>
        LET skill == SkillCondition(rec_request.career_trajectory, rec_request.job)
            growth == SeniorityStep(rec_request.career_trajectory, rec_request.job)
        IN  /\ rec_response.recommendation_type
                  \in {"for_you", "career_growth", "skill_match"}
            /\ skill => rec_response.recommendation_type = "skill_match"
            /\ (growth /\ ~skill) => rec_response.recommendation_type = "career_growth"
            /\ (~growth /\ ~skill) => rec_response.recommendation_type = "for_you"

\* C11 witness: a job for which both conditions hold, categorized skill_match.
C11_Witness ==
    /\ JobDone
    /\ SkillCondition(rec_request.career_trajectory, rec_request.job)
    /\ SeniorityStep(rec_request.career_trajectory, rec_request.job)
    /\ rec_response.growth_jobs # <<>>
    /\ rec_response.recommendation_type = "skill_match"

\* C12: a job is categorized skill_match if and only if more than half of
\* its requirements are matched by the candidate's skills.
C12_SkillMatchIffHalfRequirements ==
    JobDone =>
        (rec_response.recommendation_type = "skill_match"
            <=> 2 * Cardinality(MatchedRequirements(rec_request.career_trajectory,
                                                    rec_request.job))
                    > Len(rec_request.job.requirements))

\* C13: identify_career_growth_opportunities returns the job exactly when
\* some keyword of senior / lead / manager is in its title and not in the
\* candidate's current role (letter case ignored), and returns it once.
C13_GrowthIffSeniorityStep ==
    JobDone =>
        rec_response.growth_jobs =
            IF SeniorityStep(rec_request.career_trajectory, rec_request.job)
            THEN <<rec_request.job>> ELSE <<>>

\* C13 witness: a title with two keywords, both absent from the current
\* role, returned once.
C13_Witness ==
    /\ JobDone
    /\ Cardinality({k \in SeniorityKeywords :
                       /\ Contains(Lower(rec_request.job.title), k)
                       /\ ~Contains(Lower(rec_request.career_trajectory.current_role), k)})
          = 2
    /\ Len(rec_response.growth_jobs) = 1

\* C17: the location dimension is granted in full exactly when the job's
\* location matches a preferred location (normalized substring match) or the
\* job is remote, and an empty preferred_locations list grants it to every job.
C17_LocationCreditRule ==
    JobDone =>
        LET preferred == rec_request.preferences.preferred_locations
            job == rec_request.job
            matches ==
                \E i \in 1..Len(preferred) :
                    \/ Contains(normalize_text(job.location), normalize_text(preferred[i]))
                    \/ Contains(normalize_text(preferred[i]), normalize_text(job.location))
        IN  rec_response.location_credit =
                IF preferred = <<>> \/ matches \/ job.is_remote
                THEN Rat(2, 10) ELSE Zero

\* C29: no dimension of calculate_base_match_score adds more than its
\* weight; the skills dimension adds at most 0.10, the number of skill
\* matches never exceeding the number of requirements.
C29_SkillsWithinWeight ==
    JobDone =>
        /\ RLe(rec_response.location_credit, Rat(2, 10))
        /\ RLe(rec_response.skills_credit, Rat(1, 10))
        /\ SkillMatches(rec_request.career_trajectory.skills,
                        rec_request.job.requirements)
               <= Len(rec_request.job.requirements)

-----------------------------------------------------------------------------
(* Properties of POST /recommend with an unparsed body, under SpecValidate *)

\* C18: a job entry that lacks a required field is skipped, and every
\* well-formed job of the pool is still scored and returned: the request is
\* answered with success, with a result for each well-formed job in some list
\* and none for the others.
C18_BadJobSkipped ==
    (svc = "validation" /\ pc # "received") =>
        /\ rec_response.status = 200
        /\ \A i \in 1..Len(rec_request.job_pool) :
               IsJobPosting(rec_request.job_pool[i]) <=>
                   \E xs \in ResponseLists(rec_response.body) :
                       \E k \in 1..Len(xs) : xs[k].job_id = rec_request.job_pool[i].id

-----------------------------------------------------------------------------
(* Properties of the similarity functions of the matcher, under SpecComponents *)

ComponentsDone == svc = "components" /\ pc = "responded"

\* C20: on empty inputs the components return their neutral values:
\* coverage 1.0 for no requirements, nothing matched for no candidate skills,
\* experience similarity 0.0 when neither side has a keyword, location and
\* job type match 1.0 for an empty preference list.
C20_NeutralValuesOnEmpty ==
    ComponentsDone =>
        /\ match_request.job.requirements = <<>> =>
              match_response.skill = [similarity_score |-> One,
                                      matching_skills |-> <<>>,
                                      missing_skills |-> <<>>]
        /\ (match_request.candidate.skills = <<>>
            /\ match_request.job.requirements # <<>>) =>
              /\ match_response.skill.matching_skills = <<>>
              /\ match_response.skill.similarity_score = Zero
        /\ (/\ \A i \in 1..Len(match_request.candidate.experience) :
                   extract_keywords(match_request.candidate.experience[i]) = <<>>
            /\ extract_keywords(match_request.job.description) = <<>>) =>
              match_response.experience_similarity = Zero
        /\ match_request.candidate.preferred_locations = <<>> =>
              match_response.location_similarity = One
        /\ match_request.candidate.job_types = <<>> =>
              match_response.job_type_similarity = One

\* C20 witness: a candidate with no skills, no preferences and only stop
\* words as experience, against a job with no requirements and no description.
C20_Witness ==
    /\ ComponentsDone
    /\ match_request.candidate.skills = <<>>
    /\ match_request.candidate.experience = <<StopWordsOnly>>
    /\ match_request.candidate.preferred_locations = <<>>
    /\ match_request.candidate.job_types = <<>>
    /\ match_request.job.requirements = <<>>
    /\ match_request.job.description = EmptyString
    /\ match_response.skill.similarity_score = One
    /\ match_response.experience_similarity = Zero

\* the keywords of the experience entries, one entry after the other
ExperienceKeywords(experience) == KeywordsOfAll(experience, 1)

\* the texts of the list joined by single spaces
RECURSIVE JoinWithSpace(_)
JoinWithSpace(texts) ==
    IF texts = <<>> THEN <<>>
    ELSE IF Len(texts) = 1 THEN texts[1]
    ELSE texts[1] \o <<" ">> \o JoinWithSpace(Tail(texts))

\* the multiset of a keyword list, as a function from keywords to counts
CountsOf(keywords) ==
    [w \in Range(keywords) |-> Count(w, keywords)]

\* C21: calculate_experience_similarity returns sum of min(counts) over sum
\* of max(counts) of the keyword multisets of the experience entries and of
\* the job description (0 for two empty multisets); the value is in [0, 1],
\* is the same with the two texts exchanged, and is 1 exactly when the two
\* multisets are equal and not empty.
C21_WeightedJaccard ==
    ComponentsDone =>
        LET a == ExperienceKeywords(match_request.candidate.experience)
            b == extract_keywords(match_request.job.description)
            words == Range(a) \cup Range(b)
            smin == SumOver(words, [w \in words |->
                        IF Count(w, a) < Count(w, b) THEN Count(w, a) ELSE Count(w, b)])
            smax == SumOver(words, [w \in words |->
                        IF Count(w, a) < Count(w, b) THEN Count(w, b) ELSE Count(w, a)])
            value == match_response.experience_similarity
        IN  /\ value = IF smax = 0 THEN Zero ELSE Rat(smin, smax)
            /\ InUnitInterval(value)
            /\ value = calculate_experience_similarity(
                           <<match_request.job.description>>,
                           JoinWithSpace(match_request.candidate.experience))
            /\ (value = One) <=> (a # <<>> /\ CountsOf(a) = CountsOf(b))

\* C21 witness: two experience entries that repeat a keyword of the job
\* description, so that frequencies matter (value 2/5, and 2/3 without them).
C21_Witness ==
    /\ ComponentsDone
    /\ Len(match_request.candidate.experience) = 2
    /\ \E w \in Range(ExperienceKeywords(match_request.candidate.experience)) :
          /\ Count(w, ExperienceKeywords(match_request.candidate.experience)) = 2
          /\ Count(w, extract_keywords(match_request.job.description)) = 1
    /\ match_response.experience_similarity = Rat(2, 5)

\* C22: the score is 0.40 * skill + 0.30 * experience + 0.15 * location
\* + 0.15 * job type; it is 1 exactly when the four components are 1 and 0
\* exactly when the four components are 0.
C22_WeightedSum ==
    ComponentsDone =>
        LET s == match_response.skill.similarity_score
            e == match_response.experience_similarity
            l == match_response.location_similarity
            t == match_response.job_type_similarity
            score == match_response.overall_similarity
        IN  /\ score.n * 100 * s.d * e.d * l.d * t.d
                  = score.d * (40 * s.n * e.d * l.d * t.d + 30 * e.n * s.d * l.d * t.d
                               + 15 * l.n * s.d * e.d * t.d + 15 * t.n * s.d * e.d * l.d)
            /\ (score = One) <=> (s = One /\ e = One /\ l = One /\ t = One)
            /\ (score = Zero) <=> (s = Zero /\ e = Zero /\ l = Zero /\ t = Zero)

\* C22 witness: a job for which the four components are 1 and the score is 1.
C22_Witness ==
    /\ ComponentsDone
    /\ match_request.candidate.skills # <<>>
    /\ match_request.job.requirements # <<>>
    /\ match_response.skill.similarity_score = One
    /\ match_response.experience_similarity = One
    /\ match_response.location_similarity = One
    /\ match_response.job_type_similarity = One
    /\ match_response.overall_similarity = One

-----------------------------------------------------------------------------
(* Properties of the forwarding endpoints of the backend, under SpecProxy *)

ProxyDone == svc = "proxy" /\ pc = "responded"

\* C24: on each of the four forwarding endpoints a transport failure is
\* answered with status 503, a microservice reply with a status S other
\* than 200 with an error of that same status S, and a 200 reply with the
\* reply itself.
C24_UpstreamStatusKept ==
    ProxyDone =>
        LET upstream == rec_request.upstream
        IN  /\ upstream.kind = "raises" => rec_response.status = 503
            /\ (upstream.kind = "response" /\ upstream.status_code # 200)
                   => rec_response.status = upstream.status_code
            /\ (upstream.kind = "response" /\ upstream.status_code = 200)
                   => rec_response = [status |-> 200, body |-> upstream.text]

-----------------------------------------------------------------------------
(* Properties of GET /jobs/search, under SpecSearch *)

SearchDone == svc = "search" /\ pc = "responded"

\* the outcomes of the Adzuna path that are failures
AdzunaFailed(adzuna) ==
    adzuna.kind \in {"timeout", "request_error", "http_error", "bad_json", "raises"}

\* C25: whenever search_jobs_adzuna raises, or its HTTP call times out, fails
\* or returns an error status, GET /jobs/search answers with status 200 and
\* the local search result for the same validated request.
C25_AdzunaFailureNeverSurfaces ==
    (SearchDone /\ AdzunaFailed(rec_request.adzuna)) =>
        rec_response = [status |-> 200, body |-> LocalSearch(rec_request.request)]

====
